---- MODULE Spec2Model ----
(***************************************************************************)
(* Order management of the restaurant back end: the routes of              *)
(* backend/routes/orderRoutes.js, the request validators of                *)
(* middleware/valdation.js and the controllers of                          *)
(* backend/controllers/orderController.js, over the Order collection.      *)
(*                                                                         *)
(* One action is one HTTP request handled from the first middleware to the *)
(* response.  updateOrderPayment awaits twice on the data store (findById, *)
(* then findOneAndUpdate), so it is two steps and other requests may run   *)
(* between them; every other controller touches the store once.            *)
(***************************************************************************)
EXTENDS Integers, Sequences, FiniteSets, TLC

VARIABLES
    orders,     \* the Order collection: orders[i] is the document with _id i
    inflight,   \* updateOrderPayment calls suspended between findById and findOneAndUpdate
    req,        \* the request whose handler took the last step
    res         \* the response of that handler (code 0: not sent yet)

vars == <<orders, inflight, req, res>>

(***************************************************************************)
(* Bounds                                                                  *)
(***************************************************************************)
MaxOrders == 1
MaxInFlight == 1

(***************************************************************************)
(* Values                                                                  *)
(***************************************************************************)
\* null / undefined / an absent field
None == "none"

\* Requesters: no credentials, two customers, a staff member, an admin.
NoCred == "nocred"
UserIds == {"c1", "c2", "s1", "a1"}
Creds == {NoCred} \cup UserIds

Role(u) ==
    CASE u \in {"c1", "c2"} -> "customer"
      [] u = "s1" -> "staff"
      [] u = "a1" -> "admin"
      [] OTHER -> None

OrderStatuses == {"placed", "preparing", "ready", "served", "canceled", "completed"}
validPaymentStatuses == {"pending", "paid", "failed", "refunded"}

\* A JavaScript number: NaN or an (integer) value.
Num(n) == [nan |-> FALSE, v |-> n]
NaN == [nan |-> TRUE, v |-> 0]

\* An :id of a URL that is no ObjectId.
BadId == 0

\* The menu (MenuItem collection), read-only here: price of each item.
MenuItemIds == {"m1"}
MenuItemPrice == [m \in MenuItemIds |-> 2]

(***************************************************************************)
(* Request values.  A JSON scalar of a request body is its type and its    *)
(* text; the conversions JavaScript applies to it are tabulated over the   *)
(* texts the requests of this model use.                                   *)
(***************************************************************************)
JNum(s) == [type |-> "number", s |-> s]
JStr(s) == [type |-> "string", s |-> s]
JUndef == [type |-> "undefined", s |-> "undefined"]

\* JavaScript truthiness (the || of createOrder).
Truthy(v) ==
    CASE v.type = "undefined" -> FALSE
      [] v.type = "number" -> v.s \notin {"0", "NaN"}
      [] OTHER -> v.s # ""

JsOr(a, b) == IF Truthy(a) THEN a ELSE b

IntTexts == {"-1", "0", "1", "2"}
IntOf(s) == CASE s = "-1" -> -1 [] s = "0" -> 0 [] s = "1" -> 1 [] OTHER -> 2

\* parseInt(x, 10) and parseFloat(x): the leading number of the text, else NaN.
parseInt(v) ==
    CASE v.s \in IntTexts -> Num(IntOf(v.s))
      [] v.s = "2x" -> Num(2)
      [] OTHER -> NaN

parseFloat(v) ==
    CASE v.s \in IntTexts -> Num(IntOf(v.s))
      [] v.s = "2x" -> Num(2)
      [] OTHER -> NaN

\* String.prototype.trim
trim(s) ==
    CASE s = " Tea " -> "Tea"
      [] s = "  " -> ""
      [] s = " t1 " -> "t1"
      [] OTHER -> s

\* toLowerCase().trim() of updateOrderPayment
toLowerCaseTrim(s) ==
    CASE s = "PAID" -> "paid"
      [] s = " paid " -> "paid"
      [] s = "Cash" -> "cash"
      [] OTHER -> s

(***************************************************************************)
(* express-validator chains of middleware/valdation.js                     *)
(***************************************************************************)
\* isMongoId: 24 hexadecimal digits.  "m1" and "t1" stand for well-formed ids.
isMongoId(v) == v.type = "string" /\ v.s \in {"m1", "t1"}

\* isInt({ min: 1 }) on the value's text; an absent value has the text "".
isIntMin1(v) == v.type # "undefined" /\ v.s \in IntTexts /\ IntOf(v.s) >= 1

validateOrderNoQuantity(body) ==
    /\ (body.tableId.type # "undefined" => isMongoId(body.tableId))
    /\ body.itemsKind = "array"
    /\ \A i \in DOMAIN body.items : isMongoId(body.items[i].menuItemId)

\* TRUE iff validationResult(req) is empty after validateOrder
validateOrder(body) ==
    /\ (body.tableId.type # "undefined" => isMongoId(body.tableId))
    /\ body.itemsKind = "array"
    /\ \A i \in DOMAIN body.items :
          /\ isMongoId(body.items[i].menuItemId)
          /\ isIntMin1(body.items[i].quantity)

validateOrderStatus(body) == body.status \in OrderStatuses

validateOrderPayment(body) == body.status \in validPaymentStatuses

\* param('id').isMongoId()
validParamId(id) == id # BadId

\* utils/validationUtils.js
isValidOrderStatus(s) == s \in OrderStatuses

(***************************************************************************)
(* Authentication and role middleware                                      *)
(***************************************************************************)
\* authenticate: sets req.user from valid credentials.  Without credentials it
\* either answers 401 (strict) or calls next() with req.user unset; the
\* controllers test req.user themselves, so both are admitted.
authenticate(cred, strict) ==
    IF cred = NoCred
    THEN [code |-> IF strict THEN 401 ELSE 0, user |-> None]
    ELSE [code |-> 0, user |-> cred]

\* requireStaff: 401 without a user, 403 unless the role is staff or admin.
requireStaff(user) ==
    IF user = None THEN 401
    ELSE IF Role(user) \in {"staff", "admin"} THEN 0 ELSE 403

(***************************************************************************)
(* The Order collection                                                    *)
(***************************************************************************)
\* new Date(), as far as the model tells dates apart
Now == "date"

\* payment sub-record of a new document (schema defaults)
defaultPayment ==
    [status |-> "pending", method |-> None, paidAt |-> None, refundedAt |-> None]

RECURSIVE SumItems(_, _)
SumItems(items, n) ==
    IF n = 0 THEN 0
    ELSE items[n].price.v * items[n].qty.v + SumItems(items, n - 1)

\* utils/helperUtils.js: the sum of price * qty over the line items
calculateOrderTotal(items) == SumItems(items, Len(items))

\* utils/helperUtils.js: a fresh order number
generateOrderNumber == Len(orders) + 1

exists(id) == id \in DOMAIN orders

\* A document already in the collection when the server starts: an order of
\* customer c1, as createOrder writes it when req.user is set.
seedOrder ==
    [tableId |-> "t1", customerId |-> "c1", orderNumber |-> 1,
     items |-> <<[menuItemId |-> "m1", name |-> "Tea", price |-> Num(2),
                  qty |-> Num(1), note |-> ""]>>,
     totals |-> 2, status |-> "placed", payment |-> defaultPayment]

(***************************************************************************)
(* createOrder                                                             *)
(***************************************************************************)
normalizeQty(it) ==
    LET n == parseInt(JsOr(it.quantity, it.qty))
    IN IF n.nan \/ n.v = 0 THEN Num(1) ELSE n

normalizedPrice(it) == parseFloat(it.price)

normalizeItem(it) ==
    [menuItemId |-> it.menuItemId.s,
     name |-> IF Truthy(it.name) THEN trim(it.name.s) ELSE "",
     price |-> normalizedPrice(it),
     qty |-> normalizeQty(it),
     note |-> ""]

normalizedItems(items) == [i \in DOMAIN items |-> normalizeItem(items[i])]

\* TRUE iff the controller pushes an error for the normalized item
itemErrors(it) ==
    \/ it.name = ""
    \/ it.price.nan \/ it.price.v <= 0
    \/ it.qty.nan \/ it.qty.v < 1

normalizedTableId(v) ==
    IF v.type = "string" THEN trim(v.s)
    ELSE IF Truthy(v) THEN v.s ELSE None

initialStatusFromBody(body) ==
    IF body.status.type = "string" THEN body.status.s ELSE "placed"

initialStatus(body) == "placed"

customerIdOf(user) == user

newOrder(user, body) ==
    [tableId |-> normalizedTableId(body.tableId),
     customerId |-> customerIdOf(user),
     orderNumber |-> generateOrderNumber,
     items |-> normalizedItems(body.items),
     totals |-> calculateOrderTotal(normalizedItems(body.items)),
     status |-> initialStatus(body),
     payment |-> defaultPayment]

Respond(r, op, code, data) ==
    /\ req' = r
    /\ res' = [op |-> op, code |-> code, data |-> data]

\* The controller, run with req.user = user.
createOrder(r, user) ==
    IF r.body.itemsKind = "string" \/ Len(r.body.items) = 0
    THEN Respond(r, "createOrder", 400, <<>>) /\ UNCHANGED <<orders, inflight>>
    ELSE IF \E i \in DOMAIN r.body.items : itemErrors(normalizedItems(r.body.items)[i])
    THEN Respond(r, "createOrder", 400, <<>>) /\ UNCHANGED <<orders, inflight>>
    ELSE \E saved \in BOOLEAN :
           IF saved
           THEN /\ orders' = Append(orders, newOrder(user, r.body))
                /\ Respond(r, "createOrder", 201, <<Len(orders) + 1>>)
                /\ UNCHANGED inflight
           ELSE /\ Respond(r, "createOrder", 500, <<>>)
                /\ UNCHANGED <<orders, inflight>>

(***************************************************************************)
(* updateOrderStatus, updateOrderPayment, cancelOrder                      *)
(***************************************************************************)
\* findByIdAndUpdate(id, { $set: { status } })
updateOrderStatus(r) ==
    IF ~isValidOrderStatus(r.body.status)
    THEN Respond(r, "updateOrderStatus", 400, <<>>) /\ UNCHANGED <<orders, inflight>>
    ELSE IF r.id = BadId
    THEN Respond(r, "errorHandler", 500, <<>>) /\ UNCHANGED <<orders, inflight>>
    ELSE IF ~exists(r.id)
    THEN Respond(r, "updateOrderStatus", 404, <<>>) /\ UNCHANGED <<orders, inflight>>
    ELSE /\ orders' = [orders EXCEPT ![r.id].status = r.body.status]
         /\ Respond(r, "updateOrderStatus", 200, <<r.id>>)
         /\ UNCHANGED inflight

completesAlways(status, order) == status = "paid"

\* line 156: the payment update also completes the order
completes(status, order) == status = "paid" /\ order.status = "served"

\* The $set document built from the request and from the order findById returned.
updateData(status, method, order) ==
    [payStatus |-> status,
     paidAt |-> status = "paid",
     refundedAt |-> status = "refunded",
     method |-> IF Truthy(method) THEN toLowerCaseTrim(method.s) ELSE None,
     status |-> IF completes(status, order) THEN "completed" ELSE None]

applyUpdateReplacing(order, ud) ==
    [order EXCEPT
       !.payment = [status |-> ud.payStatus,
                    method |-> IF ud.method # None THEN ud.method ELSE @.method,
                    paidAt |-> IF ud.paidAt THEN Now ELSE @.paidAt,
                    refundedAt |-> IF ud.refundedAt THEN Now ELSE @.refundedAt],
       !.status = IF ud.status # None THEN ud.status ELSE @,
       !.items = <<>>,
       !.totals = 0]

\* findOneAndUpdate({ _id: id }, { $set: updateData })
applyUpdate(order, ud) ==
    [order EXCEPT
       !.payment = [status |-> ud.payStatus,
                    method |-> IF ud.method # None THEN ud.method ELSE @.method,
                    paidAt |-> IF ud.paidAt THEN Now ELSE @.paidAt,
                    refundedAt |-> IF ud.refundedAt THEN Now ELSE @.refundedAt],
       !.status = IF ud.status # None THEN ud.status ELSE @]

\* updateOrderPayment up to its second await: validation, findById, updateData.
updateOrderPaymentRead(r) ==
    LET status == toLowerCaseTrim(r.body.status)
    IN IF status \notin validPaymentStatuses
       THEN Respond(r, "updateOrderPayment", 400, <<>>) /\ UNCHANGED <<orders, inflight>>
       ELSE IF r.id = BadId
       THEN Respond(r, "updateOrderPayment", 500, <<>>) /\ UNCHANGED <<orders, inflight>>
       ELSE IF ~exists(r.id)
       THEN Respond(r, "updateOrderPayment", 404, <<>>) /\ UNCHANGED <<orders, inflight>>
       ELSE /\ inflight' = inflight \cup
                  {[req |-> r, updateData |-> updateData(status, r.body.method, orders[r.id])]}
            /\ Respond(r, "updateOrderPayment", 0, <<>>)
            /\ UNCHANGED orders

\* updateOrderPayment from findOneAndUpdate to the response.
updateOrderPaymentWrite(f) ==
    /\ orders' = [orders EXCEPT ![f.req.id] = applyUpdate(@, f.updateData)]
    /\ inflight' = inflight \ {f}
    /\ Respond(f.req, "updateOrderPayment", 200, <<f.req.id>>)

cancelFilterCanceledOnly(order) == order.status # "canceled"

\* status: { $nin: ['completed', 'canceled'] }
cancelFilter(order) == order.status \notin {"completed", "canceled"}

\* findOneAndUpdate({ _id: id, status: { $nin: [...] } }, { $set: { status: 'canceled' } })
cancelOrder(r) ==
    IF exists(r.id) /\ cancelFilter(orders[r.id])
    THEN /\ orders' = [orders EXCEPT ![r.id].status = "canceled"]
         /\ Respond(r, "cancelOrder", 200, <<r.id>>)
         /\ UNCHANGED inflight
    ELSE Respond(r, "cancelOrder", 404, <<>>) /\ UNCHANGED <<orders, inflight>>

(***************************************************************************)
(* listOrders, getOrderById                                                *)
(***************************************************************************)
listQueryUnscoped(user, query) ==
    IF Role(user) \in {"staff", "admin"}
    THEN (IF Truthy(query.tableId)
          THEN [f \in {"tableId"} |-> query.tableId.s] ELSE [f \in {} |-> None])
         @@
         (IF Truthy(query.status) /\ isValidOrderStatus(query.status.s)
          THEN [f \in {"status"} |-> query.status.s] ELSE [f \in {} |-> None])
    ELSE [f \in {} |-> None]

\* The Mongo query listOrders builds: the fields it constrains.
listQuery(user, query) ==
    IF Role(user) \in {"staff", "admin"}
    THEN (IF Truthy(query.tableId)
          THEN [f \in {"tableId"} |-> query.tableId.s] ELSE [f \in {} |-> None])
         @@
         (IF Truthy(query.status) /\ isValidOrderStatus(query.status.s)
          THEN [f \in {"status"} |-> query.status.s] ELSE [f \in {} |-> None])
    ELSE [f \in {"customerId"} |-> user]

matches(order, q) == \A f \in DOMAIN q : order[f] = q[f]

\* Order.find(query).sort({ createdAt: -1 }): ids of the matching documents,
\* newest first, among the documents 1..n.
RECURSIVE findSorted(_, _)
findSorted(q, n) ==
    IF n = 0 THEN <<>>
    ELSE IF matches(orders[n], q)
         THEN <<n>> \o findSorted(q, n - 1)
         ELSE findSorted(q, n - 1)

orDefault(n, d) == IF n.nan \/ n.v = 0 THEN d ELSE n.v

\* .skip(skip).limit(limit)
paginate(found, page, limit) ==
    LET skip == (page - 1) * limit
        last == IF skip + limit < Len(found) THEN skip + limit ELSE Len(found)
    IN SubSeq(found, skip + 1, last)

listOrders(r, user) ==
    IF user = None
    THEN Respond(r, "listOrders", 401, <<>>) /\ UNCHANGED <<orders, inflight>>
    ELSE LET page == orDefault(parseInt(r.query.page), 1)
             limit == orDefault(parseInt(r.query.limit), 20)
             found == findSorted(listQuery(user, r.query), Len(orders))
         IN IF page < 1
            THEN Respond(r, "listOrders", 500, <<>>) /\ UNCHANGED <<orders, inflight>>
            ELSE Respond(r, "listOrders", 200, paginate(found, page, limit))
                 /\ UNCHANGED <<orders, inflight>>

\* Document.prototype.toString of the populated customerId (line 256): the
\* inspection text of the user document, which is not the text of its _id.
populatedToString(u) ==
    CASE u = "c1" -> "{ _id: c1 }"
      [] u = "c2" -> "{ _id: c2 }"
      [] OTHER -> "{ _id }"

requiresUserNever(order) == FALSE

\* line 266: without req.user, only an order that has a customerId is refused
requiresUser(order) == order.customerId # None

getOrderById(r, user) ==
    IF ~exists(r.id)
    THEN Respond(r, "getOrderById", 404, <<>>) /\ UNCHANGED <<orders, inflight>>
    ELSE IF user # None
    THEN IF ~(Role(user) \in {"staff", "admin"}
              \/ (orders[r.id].customerId # None
                  /\ populatedToString(orders[r.id].customerId) = user))
         THEN Respond(r, "getOrderById", 403, <<>>) /\ UNCHANGED <<orders, inflight>>
         ELSE Respond(r, "getOrderById", 200, <<r.id>>) /\ UNCHANGED <<orders, inflight>>
    ELSE IF requiresUser(orders[r.id])
    THEN Respond(r, "getOrderById", 401, <<>>) /\ UNCHANGED <<orders, inflight>>
    ELSE Respond(r, "getOrderById", 200, <<r.id>>) /\ UNCHANGED <<orders, inflight>>

(***************************************************************************)
(* Requests                                                                *)
(***************************************************************************)
Item(name, price, quantity, qty) ==
    [menuItemId |-> JStr("m1"), name |-> name, price |-> price,
     quantity |-> quantity, qty |-> qty]

\* a line item at the menu's price, and one the client priced lower
menuPricedItem == Item(JStr(" Tea "), JNum("2"), JNum("1"), JUndef)
clientPricedItem == Item(JStr("Tea"), JNum("1"), JNum("2"), JUndef)

Body(tableId, kind, items, status) ==
    [tableId |-> tableId, itemsKind |-> kind, items |-> items, status |-> status]

CreateBodies ==
    { Body(JStr("t1"), "array", <<menuPricedItem>>, JUndef),
      Body(JUndef, "array", <<clientPricedItem>>, JStr("completed")),
      Body(JUndef, "array", <<>>, JUndef),
      Body(JUndef, "undefined", <<>>, JUndef),
      Body(JUndef, "string", <<>>, JUndef),
      Body(JStr(" t1 "), "array", <<menuPricedItem>>, JUndef),
      Body(JUndef, "array", <<Item(JStr("  "), JNum("2"), JNum("1"), JUndef)>>, JUndef),
      Body(JUndef, "array", <<Item(JUndef, JNum("2"), JNum("1"), JUndef)>>, JUndef),
      Body(JUndef, "array", <<Item(JStr("Tea"), JStr("abc"), JNum("1"), JUndef)>>, JUndef),
      Body(JUndef, "array", <<Item(JStr("Tea"), JNum("0"), JNum("1"), JUndef)>>, JUndef),
      Body(JUndef, "array", <<Item(JStr("Tea"), JNum("2"), JNum("0"), JUndef)>>, JUndef),
      Body(JUndef, "array", <<Item(JStr("Tea"), JNum("2"), JUndef, JNum("2"))>>, JUndef),
      Body(JUndef, "array", <<menuPricedItem,
                              Item(JStr("Tea"), JNum("2"), JNum("0"), JUndef)>>, JUndef) }

CreateRequests ==
    { [route |-> "POST /", cred |-> c, body |-> b] :
        c \in {NoCred, "c1"}, b \in CreateBodies }

Query(tableId, status, page, limit) ==
    [tableId |-> tableId, status |-> status, page |-> page, limit |-> limit]

noFilter == Query(JUndef, JUndef, JUndef, JUndef)

ListQueries ==
    { noFilter,
      Query(JStr("t1"), JUndef, JUndef, JUndef),
      Query(JUndef, JStr("served"), JUndef, JUndef),
      Query(JUndef, JStr("bogus"), JUndef, JUndef),
      Query(JStr("t1"), JStr("placed"), JUndef, JUndef),
      Query(JUndef, JUndef, JStr("2"), JStr("1")),
      Query(JUndef, JUndef, JStr("-1"), JUndef) }

\* Ids of a request: every id a document can have, or one of MissingIds.
DocIds == 1..MaxOrders
MissingIds == {BadId, MaxOrders + 1}

ListRequests ==
    { [route |-> "GET /", cred |-> c, query |-> q] : c \in {"s1"}, q \in ListQueries }
    \cup
    { [route |-> "GET /", cred |-> c, query |-> q] :
        c \in {"c1"}, q \in {noFilter, Query(JUndef, JStr("served"), JUndef, JUndef)} }
    \cup
    { [route |-> "GET /", cred |-> c, query |-> q] : c \in Creds, q \in {noFilter} }

GetRequests ==
    { [route |-> "GET /:id", cred |-> c, id |-> i] : c \in Creds, i \in DocIds }
    \cup
    { [route |-> "GET /:id", cred |-> c, id |-> i] : c \in {"c1"}, i \in MissingIds }

StatusInputs == OrderStatuses \cup {"bogus"}

StatusRequests ==
    { [route |-> "PATCH /:id/status", cred |-> c, id |-> i, body |-> [status |-> s]] :
        c \in {"s1"}, i \in DocIds, s \in StatusInputs }
    \cup
    { [route |-> "PATCH /:id/status", cred |-> c, id |-> i, body |-> [status |-> s]] :
        c \in {"s1"}, i \in MissingIds, s \in {"served"} }
    \cup
    { [route |-> "PATCH /:id/status", cred |-> c, id |-> i, body |-> [status |-> s]] :
        c \in Creds, i \in DocIds, s \in {"served"} }

paidInCash == [status |-> "paid", method |-> JStr("Cash")]

PaymentBodies ==
    { paidInCash,
      [status |-> "pending", method |-> JUndef],
      [status |-> "failed", method |-> JUndef],
      [status |-> "refunded", method |-> JUndef],
      [status |-> "PAID", method |-> JUndef],
      [status |-> "bogus", method |-> JUndef] }

PaymentRequests ==
    { [route |-> "PATCH /:id/payment", cred |-> c, id |-> i, body |-> b] :
        c \in {"s1"}, i \in DocIds, b \in PaymentBodies }
    \cup
    { [route |-> "PATCH /:id/payment", cred |-> c, id |-> i, body |-> b] :
        c \in {"s1"}, i \in MissingIds, b \in {paidInCash} }
    \cup
    { [route |-> "PATCH /:id/payment", cred |-> c, id |-> i, body |-> b] :
        c \in Creds, i \in DocIds, b \in {paidInCash} }

CancelRequests ==
    { [route |-> "POST /:id/cancel", cred |-> c, id |-> i] : c \in Creds, i \in DocIds }
    \cup
    { [route |-> "POST /:id/cancel", cred |-> c, id |-> i] : c \in {"c1"}, i \in MissingIds }

(***************************************************************************)
(* Routes: the middleware chain of each route, then its controller          *)
(***************************************************************************)
\* authenticate's two behaviours differ only without credentials
Strictness(r) == IF r.cred = NoCred THEN BOOLEAN ELSE {TRUE}

Reject(r, op, code) == Respond(r, op, code, <<>>) /\ UNCHANGED <<orders, inflight>>

\* router.post('/', validateOrder, handleValidationErrors, createOrder)
PostOrder ==
    \E r \in CreateRequests :
       /\ Len(orders) < MaxOrders
       /\ IF ~validateOrder(r.body)
          THEN Reject(r, "handleValidationErrors", 400)
          ELSE createOrder(r, None)

\* router.get('/', authenticate, listOrders)
GetOrders ==
    \E r \in ListRequests : \E strict \in Strictness(r) :
       LET a == authenticate(r.cred, strict)
       IN IF a.code # 0 THEN Reject(r, "authenticate", a.code)
          ELSE listOrders(r, a.user)

\* router.get('/:id', authenticate, param('id').isMongoId(), handleValidationErrors, getOrderById)
GetOrder ==
    \E r \in GetRequests : \E strict \in Strictness(r) :
       LET a == authenticate(r.cred, strict)
       IN IF a.code # 0 THEN Reject(r, "authenticate", a.code)
          ELSE IF ~validParamId(r.id) THEN Reject(r, "handleValidationErrors", 400)
          ELSE getOrderById(r, a.user)

staffGateOpen(user) == 0

\* authenticate, requireStaff of the two PATCH routes
staffGate(user) == requireStaff(user)

\* router.patch('/:id/status', authenticate, requireStaff, validateOrderStatus,
\*              handleValidationErrors, updateOrderStatus)
PatchStatus ==
    \E r \in StatusRequests : \E strict \in Strictness(r) :
       LET a == authenticate(r.cred, strict)
       IN IF a.code # 0 THEN Reject(r, "authenticate", a.code)
          ELSE IF staffGate(a.user) # 0 THEN Reject(r, "requireStaff", staffGate(a.user))
          ELSE IF ~validateOrderStatus(r.body) THEN Reject(r, "handleValidationErrors", 400)
          ELSE updateOrderStatus(r)

\* router.patch('/:id/payment', authenticate, requireStaff, validateOrderPayment,
\*              handleValidationErrors, updateOrderPayment): up to the second await
PatchPayment ==
    \E r \in PaymentRequests : \E strict \in Strictness(r) :
       /\ Cardinality(inflight) < MaxInFlight
       /\ LET a == authenticate(r.cred, strict)
          IN IF a.code # 0 THEN Reject(r, "authenticate", a.code)
             ELSE IF staffGate(a.user) # 0 THEN Reject(r, "requireStaff", staffGate(a.user))
             ELSE IF ~validateOrderPayment(r.body) THEN Reject(r, "handleValidationErrors", 400)
             ELSE updateOrderPaymentRead(r)

\* the rest of updateOrderPayment, once findById has resolved
PatchPaymentResume == \E f \in inflight : updateOrderPaymentWrite(f)

\* router.post('/:id/cancel', authenticate, param('id').isMongoId(),
\*             handleValidationErrors, cancelOrder)
PostCancel ==
    \E r \in CancelRequests : \E strict \in Strictness(r) :
       LET a == authenticate(r.cred, strict)
       IN IF a.code # 0 THEN Reject(r, "authenticate", a.code)
          ELSE IF ~validParamId(r.id) THEN Reject(r, "handleValidationErrors", 400)
          ELSE cancelOrder(r)

(***************************************************************************)
(* Specifications                                                          *)
(***************************************************************************)
Init ==
    /\ orders \in {<<>>, <<seedOrder>>}
    /\ inflight = {}
    /\ req = [route |-> None]
    /\ res = [op |-> None, code |-> 0, data |-> <<>>]

Next ==
    \/ PostOrder
    \/ GetOrders
    \/ GetOrder
    \/ PatchStatus
    \/ PatchPayment
    \/ PatchPaymentResume
    \/ PostCancel

Spec == Init /\ [][Next]_vars

\* Every updateOrderPayment call runs to its response before the next request
\* is handled: no request is concurrent with it.
NextSerial ==
    \/ inflight = {} /\ PostOrder
    \/ inflight = {} /\ GetOrders
    \/ inflight = {} /\ GetOrder
    \/ inflight = {} /\ PatchStatus
    \/ inflight = {} /\ PatchPayment
    \/ PatchPaymentResume
    \/ inflight = {} /\ PostCancel

SpecSerial == Init /\ [][NextSerial]_vars

(***************************************************************************)
(* Properties                                                              *)
(***************************************************************************)
Terminal == {"completed", "canceled"}
Elevated == {"staff", "admin"}

\* C1: cancelOrder is one conditional update.  On an order whose status is
\* completed or canceled it answers 404 and changes no order; on an existing
\* order in any other status it sets the status to canceled and answers 200.
\* Spec interleaves it with every other request, suspended payment updates
\* included.
CancelIsAtomicConditional ==
    [][ (req'.route = "POST /:id/cancel" /\ res'.op = "cancelOrder" /\ exists(req'.id))
        => IF orders[req'.id].status \in Terminal
           THEN res'.code = 404 /\ orders' = orders
           ELSE /\ res'.code = 200
                /\ orders'[req'.id].status = "canceled"
                /\ \A i \in DOMAIN orders : i # req'.id => orders'[i] = orders[i] ]_vars

\* C1 witness: a cancel of a completed order answered 404 while a payment
\* update of the same order is suspended.
CancelRefusedWitness ==
    /\ req.route = "POST /:id/cancel"
    /\ res.op = "cancelOrder" /\ res.code = 404
    /\ exists(req.id) /\ orders[req.id].status = "completed"
    /\ \E f \in inflight : f.req.id = req.id

\* C2: once an order's status is completed or canceled, no request changes it.
TerminalStatusIsFinal ==
    [][ \A i \in DOMAIN orders :
          orders[i].status \in Terminal => orders'[i].status = orders[i].status ]_vars

\* C3: a payment update that runs with no request between its read and its
\* write sets the payment status to the requested one, and sets the order
\* status to completed exactly when the requested status is paid and the order
\* is served; otherwise the order status is as before.
PaymentCompletesServedOrder ==
    [][ (res'.op = "updateOrderPayment" /\ res'.code = 200)
        => /\ orders'[req'.id].payment.status = req'.body.status
           /\ orders'[req'.id].status =
                IF req'.body.status = "paid" /\ orders[req'.id].status = "served"
                THEN "completed" ELSE orders[req'.id].status ]_vars

\* C3 witness: a paid update of a served order answered 200.
PaymentCompletedWitness ==
    /\ res.op = "updateOrderPayment" /\ res.code = 200
    /\ req.body.status = "paid"
    /\ orders[req.id].status = "completed"
    /\ orders[req.id].payment.status = "paid"

\* what the claim asks of a line item as the client sent it
rawItemViolates(it) ==
    \/ ~Truthy(it.name) \/ trim(it.name.s) = ""
    \/ parseFloat(it.price).nan \/ parseFloat(it.price).v <= 0
    \/ parseInt(JsOr(it.quantity, it.qty)).nan \/ parseInt(JsOr(it.quantity, it.qty)).v < 1

rawBodyViolates(body) ==
    \/ body.itemsKind # "array"
    \/ Len(body.items) = 0
    \/ \E i \in DOMAIN body.items : rawItemViolates(body.items[i])

persistedItemsValid ==
    \A i \in DOMAIN orders :
       /\ Len(orders[i].items) >= 1
       /\ \A k \in DOMAIN orders[i].items :
             /\ orders[i].items[k].name # ""
             /\ ~orders[i].items[k].price.nan /\ orders[i].items[k].price.v > 0
             /\ ~orders[i].items[k].qty.nan /\ orders[i].items[k].qty.v >= 1

\* C4: every persisted order has at least one line item, each with a non-empty
\* name, a price > 0 and a quantity >= 1; a POST whose items are no array, are
\* empty, or hold an item that breaks one of these is answered 400 and
\* persists nothing.
OrdersHaveValidItems ==
    /\ []persistedItemsValid
    /\ [][ (req'.route = "POST /" /\ rawBodyViolates(req'.body))
           => res'.code = 400 /\ orders' = orders ]_vars

\* C4 witness: an order with a line item of quantity 0 was answered 400.
ZeroQuantityRejectedWitness ==
    /\ req.route = "POST /" /\ res.code = 400
    /\ req.body.itemsKind = "array" /\ Len(req.body.items) >= 1
    /\ \E i \in DOMAIN req.body.items :
          /\ req.body.items[i].quantity = JNum("0")
          /\ Truthy(req.body.items[i].name)
          /\ ~rawItemViolates([req.body.items[i] EXCEPT !.quantity = JNum("1")])

\* C5: an order createOrder has just persisted has status placed, whatever
\* status the request body carries.
CreatedOrderIsPlaced ==
    (req.route = "POST /" /\ res.code = 201)
    => orders[res.data[1]].status = "placed"

\* C5 witness: an order was created from a body that asks for status completed.
ClientStatusIgnoredWitness ==
    /\ req.route = "POST /" /\ res.code = 201
    /\ req.body.status = JStr("completed")
    /\ orders[res.data[1]].status = "placed"

\* C6: the unit price of every persisted line item is the price of the menu
\* item it references.
LineItemPriceIsMenuPrice ==
    \A i \in DOMAIN orders : \A k \in DOMAIN orders[i].items :
       orders[i].items[k].price = Num(MenuItemPrice[orders[i].items[k].menuItemId])

\* C7: a request to the status or the payment route from a requester whose
\* role is neither staff nor admin is answered 401 or 403 by the middleware and
\* changes neither an order nor the suspended payment updates.
StaffOnlyMutations ==
    [][ (req'.route \in {"PATCH /:id/status", "PATCH /:id/payment"}
         /\ Role(req'.cred) \notin Elevated)
        => /\ res'.op \in {"authenticate", "requireStaff"}
           /\ res'.code \in {401, 403}
           /\ orders' = orders
           /\ inflight' = inflight ]_vars

\* C7 witness: a customer's status update of an existing order was answered
\* 403 by requireStaff.
CustomerRejectedWitness ==
    /\ req.route = "PATCH /:id/status"
    /\ Role(req.cred) = "customer"
    /\ exists(req.id)
    /\ res.op = "requireStaff" /\ res.code = 403

\* C8: an authenticated customer who does not own the order cannot cancel it.
OnlyOwnerCustomerCancels ==
    (res.op = "cancelOrder" /\ res.code = 200 /\ Role(req.cred) = "customer")
    => orders[req.id].customerId = req.cred

\* C9: listOrders answers a requester who is neither staff nor admin with
\* orders of that requester only; staff and admin with orders that match the
\* tableId and the valid status of the query, when given; a request without
\* an authenticated user with 401 and no order.
ListIsRoleScoped ==
    /\ (res.op = "listOrders" /\ res.code = 200)
       => \A k \in DOMAIN res.data :
             /\ exists(res.data[k])
             /\ Role(req.cred) \notin Elevated
                => orders[res.data[k]].customerId = req.cred
             /\ (Role(req.cred) \in Elevated /\ Truthy(req.query.tableId))
                => orders[res.data[k]].tableId = req.query.tableId.s
             /\ (Role(req.cred) \in Elevated /\ req.query.status.s \in OrderStatuses)
                => orders[res.data[k]].status = req.query.status.s
    /\ (req.route = "GET /" /\ req.cred = NoCred)
       => res.code = 401 /\ res.data = <<>>

\* C9 witness: a customer's unfiltered listing came back empty although the
\* collection holds an order.
OthersOrdersHiddenWitness ==
    /\ res.op = "listOrders" /\ res.code = 200
    /\ Role(req.cred) = "customer"
    /\ req.query = noFilter
    /\ orders # <<>>
    /\ res.data = <<>>

\* C10: an order an authenticated customer places through POST /api/orders
\* carries that customer's id as customerId.
CustomerOrderIsAttributed ==
    (req.route = "POST /" /\ res.code = 201 /\ req.cred # NoCred)
    => orders[res.data[1]].customerId = req.cred

creationFields(o) ==
    [items |-> o.items, totals |-> o.totals, orderNumber |-> o.orderNumber,
     customerId |-> o.customerId, tableId |-> o.tableId]

\* C11: no request changes the items, totals, order number, customer or table
\* of an existing order, and a status update or a cancel leaves its payment
\* record as it was.
CreationFieldsAreFrozen ==
    [][ \A i \in DOMAIN orders :
          /\ creationFields(orders'[i]) = creationFields(orders[i])
          /\ req'.route \in {"PATCH /:id/status", "POST /:id/cancel"}
             => orders'[i].payment = orders[i].payment ]_vars

\* C11 witness: a payment update has marked an order paid and completed it; its
\* totals are still the sum over its line items.
PaidOrderKeepsTotalsWitness ==
    /\ res.op = "updateOrderPayment" /\ res.code = 200
    /\ orders[req.id].status = "completed"
    /\ orders[req.id].payment.paidAt = Now
    /\ Len(orders[req.id].items) >= 1
    /\ orders[req.id].totals = calculateOrderTotal(orders[req.id].items)

CompletedOnlyOverServed ==
    [][ (res'.op = "updateOrderPayment" /\ res'.code = 200
         /\ \E f \in inflight \ inflight' : f.updateData.status = "completed")
        => orders[req'.id].status = "served" ]_vars

====
